---- MODULE Spec2Model ----
(***************************************************************************)
(* Model of src/theme.js: the light/dark theme controller of the page.     *)
(*                                                                         *)
(* The state is the persisted storage entry, the root element's data-theme *)
(* attribute, the toggle control's two text attributes, the listeners the  *)
(* script registered, and the environment the script reads (the system     *)
(* colour-scheme preference, whether matchMedia exists, whether the toggle *)
(* control is in the document, the document's readiness).                  *)
(*                                                                         *)
(* Two specifications are given.  Spec is the page as the browser drives   *)
(* it: the script runs at page load, DOMContentLoaded fires, the control   *)
(* is clicked, the system preference changes, the page is closed.  SpecApi *)
(* calls the functions of the script one at a time from arbitrary          *)
(* document and storage contents, the way a unit test would.               *)
(***************************************************************************)
EXTENDS Naturals, FiniteSets, Sequences, TLC

VARIABLES
    store,        \* localStorage entry 'theme-preference' (Absent = no entry)
    attr,         \* documentElement attribute 'data-theme' (Absent = none)
    ariaLabel,    \* #theme-toggle attribute 'aria-label'
    title,        \* #theme-toggle attribute 'title'
    sysDark,      \* the (prefers-color-scheme: dark) media feature matches
    matchMedia,   \* window.matchMedia exists in this browser
    hasButton,    \* the page's markup contains #theme-toggle
    buttonInDom,  \* getElementById('theme-toggle') finds the element now
    page,         \* "closed", or document.readyState: "loading" / "ready"
    dclListener,  \* a DOMContentLoaded listener is registered
    clickHandlers,\* number of click listeners registered on the control
    mqListener,   \* a 'change' listener is registered on the media query
    readyRuns,    \* times the DOM-ready body has run on this page
    exc,          \* an uncaught exception was reported on this page
    last,         \* the operation that ran last, its inputs and its result
    prev,         \* the operation that ran before it
    before,       \* the state in which the last operation started
    faulted,      \* some storage call was made to throw so far
    chosen        \* the theme the latest toggle click applied (Absent = none)
\* A "click" operation records as its arg the root attribute it started from.

vars == <<store, attr, ariaLabel, title, sysDark, matchMedia, hasButton,
          buttonInDom, page, dclListener, clickHandlers, mqListener,
          readyRuns, exc, last, prev, before, faulted, chosen>>

----------------------------------------------------------------------------
(* Values *)

Absent == "<null>"          \* JavaScript null: no entry, no attribute
Throw == "<throw>"          \* a storage call raised an exception
Unwritten == "<markup>"     \* the control's text as the page's markup has it

Themes == {"dark", "light"}
JunkStored == {"", "blue"}  \* stored content outside the two theme names
StoreValues == {Absent} \cup Themes \cup JunkStored
AttrValues == {Absent} \cup Themes \cup {"sepia"}
ThemeArgs == Themes \cup {Absent}

LabelLight == "Switch to light mode"
LabelDark == "Switch to dark mode"
LabelValues == {Unwritten, LabelLight, LabelDark}

\* Which storage calls throw during one operation.
Faults == [read : BOOLEAN, write : BOOLEAN, remove : BOOLEAN]
NoFault == [read |-> FALSE, write |-> FALSE, remove |-> FALSE]
\* The storage calls each operation can reach: the fault inputs are drawn
\* from the calls that exist in the operation's code.
ReadFaults == {f \in Faults : ~f.write /\ ~f.remove}
ReadWriteFaults == {f \in Faults : ~f.remove}
WriteRemoveFaults == {f \in Faults : ~f.read}

\* JavaScript truthiness of a value read from storage: null and '' are falsy.
Falsy(v) == v \in {Absent, ""}

\* The document, the storage and the environment as one record, so that the
\* functions of the script can be composed.
World ==
    [store |-> store, attr |-> attr, aria |-> ariaLabel, title |-> title,
     sysDark |-> sysDark, mm |-> matchMedia, button |-> buttonInDom,
     page |-> page, dcl |-> dclListener, clicks |-> clickHandlers,
     mq |-> mqListener, ready |-> readyRuns, exc |-> FALSE]

----------------------------------------------------------------------------
(* The functions of the script *)

getSystemPreference(w) ==
    IF w.mm /\ w.sysDark THEN "dark" ELSE "light"

\* localStorage.getItem: the entry, or an exception.
getItem(w, f) ==
    IF f.read THEN Throw ELSE w.store

\* getStoredPreference without the try/catch: the exception escapes.
getStoredPreferenceNoCatch(w, f) ==
    getItem(w, f)

getStoredPreference(w, f) ==
    LET r == getItem(w, f)
    IN  IF r = Throw THEN Absent ELSE r

\* localStorage.setItem / removeItem: exc is raised when the call throws.
setItem(w, v, f) ==
    IF f.write THEN [w EXCEPT !.exc = TRUE] ELSE [w EXCEPT !.store = v]

removeItem(w, f) ==
    IF f.remove THEN [w EXCEPT !.exc = TRUE] ELSE [w EXCEPT !.store = Absent]

\* catch (e) { }: the exception raised inside the try block is dropped.
Catch(w) == [w EXCEPT !.exc = FALSE]

\* setTheme that changes the attribute and never touches the storage.
setThemeNoPersist(w, theme, f) ==
    IF theme = "dark" \/ theme = "light"
    THEN [w EXCEPT !.attr = theme]
    ELSE [w EXCEPT !.attr = Absent]

\* setTheme that flips the attribute off when it already has the value
\* (toggleAttribute in place of setAttribute).
setThemeFlipsAttribute(w, theme, f) ==
    IF theme = "dark" \/ theme = "light"
    THEN Catch(setItem([w EXCEPT !.attr = IF @ = theme THEN Absent ELSE theme],
                       theme, f))
    ELSE Catch(removeItem([w EXCEPT !.attr = Absent], f))

setTheme(w, theme, f) ==
    IF theme = "dark" \/ theme = "light"
    THEN Catch(setItem([w EXCEPT !.attr = theme], theme, f))
    ELSE Catch(removeItem([w EXCEPT !.attr = Absent], f))

getCurrentTheme(w) ==
    IF w.attr = "dark" \/ w.attr = "light"
    THEN w.attr
    ELSE getSystemPreference(w)

\* initTheme that ignores the stored preference and follows the system.
initThemeSystemOnly(w, f) ==
    [w EXCEPT !.attr = getSystemPreference(w)]

\* initTheme whose fallback branch goes through setTheme and so persists
\* the system preference.
initThemePersistsSystem(w, f) ==
    LET stored == getStoredPreference(w, f)
    IN  IF stored = Throw THEN [w EXCEPT !.exc = TRUE]
        ELSE IF stored = "dark" \/ stored = "light"
        THEN setTheme(w, stored, f)
        ELSE setTheme(w, getSystemPreference(w), f)

\* initTheme whose fallback branch leaves the attribute to the style sheet.
initThemeLeavesAttribute(w, f) ==
    LET stored == getStoredPreference(w, f)
    IN  IF stored = Throw THEN [w EXCEPT !.exc = TRUE]
        ELSE IF stored = "dark" \/ stored = "light"
        THEN setTheme(w, stored, f)
        ELSE w

initTheme(w, f) ==
    LET stored == getStoredPreference(w, f)
    IN  IF stored = Throw THEN [w EXCEPT !.exc = TRUE]
        ELSE IF stored = "dark" \/ stored = "light"
        THEN setTheme(w, stored, f)
        ELSE [w EXCEPT !.attr = getSystemPreference(w)]

\* toggleTheme whose fallback branch applies the system preference itself
\* instead of its opposite.
toggleThemeFollowsSystem(w, f) ==
    LET stored == getStoredPreference(w, f)
    IN  IF stored = Throw THEN [w EXCEPT !.exc = TRUE]
        ELSE IF stored = "dark" THEN setTheme(w, "light", f)
        ELSE IF stored = "light" THEN setTheme(w, "dark", f)
        ELSE setTheme(w, getSystemPreference(w), f)

\* toggleTheme as a three-way cycle: system -> dark/light -> ... -> system.
toggleThemeThreeWay(w, f) ==
    LET stored == getStoredPreference(w, f)
    IN  IF stored = Throw THEN [w EXCEPT !.exc = TRUE]
        ELSE IF stored = "dark" THEN setTheme(w, "light", f)
        ELSE IF stored = "light" THEN setTheme(w, Absent, f)
        ELSE setTheme(w, IF getSystemPreference(w) = "dark"
                         THEN "light" ELSE "dark", f)

toggleTheme(w, f) ==
    LET stored == getStoredPreference(w, f)
    IN  IF stored = Throw THEN [w EXCEPT !.exc = TRUE]
        ELSE IF stored = "dark" THEN setTheme(w, "light", f)
        ELSE IF stored = "light" THEN setTheme(w, "dark", f)
        ELSE setTheme(w, IF getSystemPreference(w) = "dark"
                         THEN "light" ELSE "dark", f)

\* updateToggleButton without the early return: setAttribute on null.
updateToggleButtonNoCheck(w) ==
    IF ~w.button THEN [w EXCEPT !.exc = TRUE]
    ELSE LET text == IF getCurrentTheme(w) = "dark"
                     THEN LabelLight ELSE LabelDark
         IN  [w EXCEPT !.aria = text, !.title = text]

updateToggleButton(w) ==
    IF ~w.button THEN w
    ELSE LET text == IF getCurrentTheme(w) = "dark"
                     THEN LabelLight ELSE LabelDark
         IN  [w EXCEPT !.aria = text, !.title = text]

\* A click listener that toggles and leaves the label alone.
clickHandlerNoLabel(w, f) ==
    toggleTheme(w, f)

\* function() { toggleTheme(); updateToggleButton(); }
clickHandler(w, f) ==
    LET a == toggleTheme(w, f)
    IN  IF a.exc THEN a ELSE updateToggleButton(a)

\* The body run when the DOM is ready: register the click handler on the
\* control if it exists, then initialise the label.
wireReady(w) ==
    LET a == IF w.button THEN [w EXCEPT !.clicks = @ + 1] ELSE w
    IN  updateToggleButton([a EXCEPT !.ready = @ + 1])

\* A 'change' listener that follows the system whatever is stored.
mediaChangeListenerUnguarded(w, f) ==
    updateToggleButton([w EXCEPT !.attr = getSystemPreference(w)])

\* A 'change' listener that sets the attribute and leaves the label alone.
mediaChangeListenerNoLabel(w, f) ==
    LET stored == getStoredPreference(w, f)
    IN  IF stored = Throw THEN [w EXCEPT !.exc = TRUE]
        ELSE IF Falsy(stored)
        THEN [w EXCEPT !.attr = getSystemPreference(w)]
        ELSE w

\* The 'change' listener of the media query.
mediaChangeListener(w, f) ==
    LET stored == getStoredPreference(w, f)
    IN  IF stored = Throw THEN [w EXCEPT !.exc = TRUE]
        ELSE IF Falsy(stored)
        THEN updateToggleButton([w EXCEPT !.attr = getSystemPreference(w)])
        ELSE w

\* A script that registers the DOMContentLoaded listener and also runs the
\* ready body at once (the else is missing).
scriptWiresTwice(w, f) ==
    LET a == initTheme(w, f)
        b == IF w.page = "loading"
             THEN wireReady([a EXCEPT !.dcl = TRUE])
             ELSE wireReady(a)
        c == IF w.mm THEN [b EXCEPT !.mq = TRUE] ELSE b
    IN  IF a.exc THEN a
        ELSE IF b.exc THEN b
        ELSE c

\* The top level of the script, run once per page load.
script(w, f) ==
    LET a == initTheme(w, f)
        b == IF w.page = "loading"
             THEN [a EXCEPT !.dcl = TRUE]
             ELSE wireReady(a)
        c == IF w.mm THEN [b EXCEPT !.mq = TRUE] ELSE b
    IN  IF a.exc THEN a
        ELSE IF b.exc THEN b
        ELSE c

\* A click on the control runs every registered click listener in turn; an
\* exception in one listener is reported and does not stop the others.
RECURSIVE dispatchClick(_, _, _)
dispatchClick(w, f, n) ==
    IF n = 0 THEN w
    ELSE LET r == clickHandler(Catch(w), f)
             rest == dispatchClick(Catch(r), f, n - 1)
         IN  [rest EXCEPT !.exc = w.exc \/ r.exc \/ rest.exc]

----------------------------------------------------------------------------
(* State changes *)

Call(op, arg, f, ret, n) ==
    [op |-> op, arg |-> arg, f |-> f, ret |-> ret, n |-> n]

NoCall == Call("none", Absent, NoFault, Absent, 0)

\* The document, storage and listener state become those of w.
Commit(w) ==
    /\ store' = w.store
    /\ attr' = w.attr
    /\ ariaLabel' = w.aria
    /\ title' = w.title
    /\ sysDark' = w.sysDark
    /\ buttonInDom' = w.button
    /\ page' = w.page
    /\ dclListener' = w.dcl
    /\ clickHandlers' = w.clicks
    /\ mqListener' = w.mq
    /\ readyRuns' = w.ready
    /\ exc' = (exc \/ w.exc)
    /\ UNCHANGED matchMedia

\* The operation that ran becomes last, the one before it prev (without
\* its result).
Record(c, f) ==
    /\ prev' = [last EXCEPT !.ret = Absent]
    /\ last' = c
    /\ before' = World
    /\ faulted' = (faulted \/ f.read \/ f.write \/ f.remove)

Init ==
    /\ store \in StoreValues
    /\ attr = Absent
    /\ ariaLabel = Unwritten
    /\ title = Unwritten
    /\ sysDark \in BOOLEAN
    /\ matchMedia \in BOOLEAN
    /\ hasButton = FALSE
    /\ buttonInDom = FALSE
    /\ page = "closed"
    /\ dclListener = FALSE
    /\ clickHandlers = 0
    /\ mqListener = FALSE
    /\ readyRuns = 0
    /\ exc = FALSE
    /\ last = NoCall
    /\ prev = NoCall
    /\ before = World
    /\ faulted = FALSE
    /\ chosen = Absent

\* The browser loads a page of the site and runs the script.  rs is the
\* document's readiness when the script runs, hb whether the page has the
\* control, bd whether the control is already in the document.
RunScript(rs, hb, bd, f) ==
    /\ page = "closed"
    /\ bd => hb
    /\ rs = "ready" => bd = hb
    /\ hasButton' = hb
    /\ Commit(script([World EXCEPT !.page = rs, !.button = bd], f))
    /\ Record(Call("load", rs, f, Absent, 1), f)
    /\ UNCHANGED chosen

\* The parser reaches the control while the document is still loading.
ParseButton ==
    /\ page = "loading"
    /\ hasButton
    /\ ~buttonInDom
    /\ buttonInDom' = TRUE
    /\ Record(Call("parse", Absent, NoFault, Absent, 0), NoFault)
    /\ UNCHANGED <<store, attr, ariaLabel, title, sysDark, matchMedia,
                   hasButton, page, dclListener, clickHandlers, mqListener,
                   readyRuns, exc, chosen>>

\* The document finished parsing: DOMContentLoaded fires once.
DOMContentLoaded ==
    /\ page = "loading"
    /\ buttonInDom = hasButton
    /\ LET w == [World EXCEPT !.page = "ready"]
       IN  Commit(IF dclListener THEN wireReady(w) ELSE w)
    /\ Record(Call("domready", Absent, NoFault, Absent,
                   IF dclListener THEN 1 ELSE 0), NoFault)
    /\ UNCHANGED <<hasButton, chosen>>

\* The user activates the control.
Click(f) ==
    /\ page # "closed"
    /\ buttonInDom
    /\ LET w == dispatchClick(World, f, clickHandlers)
       IN  /\ Commit(w)
           /\ chosen' = IF clickHandlers > 0 THEN w.attr ELSE chosen
    /\ Record(Call("click", attr, f, Absent, clickHandlers), f)
    /\ UNCHANGED hasButton

\* The system colour-scheme preference flips; the media query's 'change'
\* event is delivered to the listener if the page registered one.
SystemChange(f) ==
    /\ LET w == [World EXCEPT !.sysDark = ~sysDark]
           heard == page # "closed" /\ mqListener
       IN  /\ Commit(IF heard THEN mediaChangeListener(w, f) ELSE w)
           /\ Record(Call("syschange", Absent, f, Absent,
                          IF heard THEN 1 ELSE 0), f)
    /\ UNCHANGED <<hasButton, chosen>>

\* The page is closed or navigated away from: the document is discarded,
\* the storage entry and the system preference stay.
Close ==
    /\ page # "closed"
    /\ page' = "closed"
    /\ attr' = Absent
    /\ ariaLabel' = Unwritten
    /\ title' = Unwritten
    /\ hasButton' = FALSE
    /\ buttonInDom' = FALSE
    /\ dclListener' = FALSE
    /\ clickHandlers' = 0
    /\ mqListener' = FALSE
    /\ readyRuns' = 0
    /\ exc' = FALSE
    /\ Record(Call("close", Absent, NoFault, Absent, 0), NoFault)
    /\ UNCHANGED <<store, sysDark, matchMedia, chosen>>

Next ==
    \/ \E rs \in {"loading", "ready"}, hb \in BOOLEAN, bd \in BOOLEAN,
          f \in ReadWriteFaults : RunScript(rs, hb, bd, f)
    \/ ParseButton
    \/ DOMContentLoaded
    \/ \E f \in ReadWriteFaults : Click(f)
    \/ \E f \in ReadFaults : SystemChange(f)
    \/ Close

Spec == Init /\ [][Next]_vars

----------------------------------------------------------------------------
(* The functions called one at a time, from any document and storage *)

RecordApi(c, f) ==
    /\ prev' = [last EXCEPT !.ret = Absent]
    /\ last' = c
    /\ before' = World
    /\ faulted' = (faulted \/ f.read \/ f.write \/ f.remove)
    /\ UNCHANGED <<hasButton, chosen>>

InitApi ==
    /\ store \in StoreValues
    /\ attr \in AttrValues
    /\ ariaLabel = Unwritten
    /\ title = Unwritten
    /\ sysDark \in BOOLEAN
    /\ matchMedia \in BOOLEAN
    /\ hasButton \in BOOLEAN
    /\ buttonInDom = hasButton
    /\ page = "ready"
    /\ dclListener = FALSE
    /\ clickHandlers = 0
    /\ mqListener = FALSE
    /\ readyRuns = 0
    /\ exc = FALSE
    /\ last = NoCall
    /\ prev = NoCall
    /\ before = World
    /\ faulted = FALSE
    /\ chosen = Absent

CallGetSystemPreference ==
    /\ Commit(World)
    /\ RecordApi(Call("getSystemPreference", Absent, NoFault,
                      getSystemPreference(World), 1), NoFault)

CallGetStoredPreference(f) ==
    /\ LET r == getStoredPreference(World, f)
       IN  /\ Commit(IF r = Throw THEN [World EXCEPT !.exc = TRUE] ELSE World)
           /\ RecordApi(Call("getStoredPreference", Absent, f, r, 1), f)

CallSetTheme(x, f) ==
    /\ Commit(setTheme(World, x, f))
    /\ RecordApi(Call("setTheme", x, f, Absent, 1), f)

CallGetCurrentTheme ==
    /\ Commit(World)
    /\ RecordApi(Call("getCurrentTheme", Absent, NoFault,
                      getCurrentTheme(World), 1), NoFault)

CallInitTheme(f) ==
    /\ Commit(initTheme(World, f))
    /\ RecordApi(Call("initTheme", Absent, f, Absent, 1), f)

CallToggleTheme(f) ==
    /\ Commit(toggleTheme(World, f))
    /\ RecordApi(Call("toggleTheme", Absent, f, Absent, 1), f)

CallUpdateToggleButton ==
    /\ Commit(updateToggleButton(World))
    /\ RecordApi(Call("updateToggleButton", Absent, NoFault, Absent, 1),
                 NoFault)

CallMediaChangeListener(f) ==
    /\ Commit(mediaChangeListener(World, f))
    /\ RecordApi(Call("mediaChangeListener", Absent, f, Absent, 1), f)

NextApi ==
    \/ CallGetSystemPreference
    \/ \E f \in ReadFaults : CallGetStoredPreference(f)
    \/ \E x \in ThemeArgs, f \in WriteRemoveFaults : CallSetTheme(x, f)
    \/ CallGetCurrentTheme
    \/ \E f \in ReadWriteFaults : CallInitTheme(f)
    \/ \E f \in ReadWriteFaults : CallToggleTheme(f)
    \/ CallUpdateToggleButton
    \/ \E f \in ReadFaults : CallMediaChangeListener(f)

SpecApi == InitApi /\ [][NextApi]_vars

----------------------------------------------------------------------------
(* Properties of the page (Spec) *)

LabelFor(theme) == IF theme = "dark" THEN LabelLight ELSE LabelDark

\* The last step was a click that ran toggleTheme once and in which no
\* storage call threw.
ToggleStep ==
    /\ last.op = "click"
    /\ last.n = 1
    /\ ~last.f.read
    /\ ~last.f.write

\* C1: a toggle click in which no storage call throws follows the toggle
\* table: stored 'dark' gives stored and attribute 'light'; stored 'light'
\* gives stored and attribute 'dark'; no stored entry gives stored and
\* attribute the opposite of the system preference.
C1_ToggleTable ==
    ToggleStep =>
        /\ before.store = "dark" => (store = "light" /\ attr = "light")
        /\ before.store = "light" => (store = "dark" /\ attr = "dark")
        /\ (before.store = Absent /\ before.mm /\ before.sysDark)
               => (store = "light" /\ attr = "light")
        /\ (before.store = Absent /\ ~(before.mm /\ before.sysDark))
               => (store = "dark" /\ attr = "dark")

C1_Witness ==
    /\ ToggleStep
    /\ before.store = Absent
    /\ before.mm /\ before.sysDark
    /\ store = "light"
    /\ attr = "light"

\* C2: when no storage call has thrown, a page load that follows a toggle
\* click sets the root attribute to the theme that click applied, whatever
\* the system preference is at the load.
C2_ChoicePersists ==
    (last.op = "load" /\ chosen \in Themes /\ ~faulted) => attr = chosen

C2_Witness ==
    /\ last.op = "load"
    /\ chosen = "light"
    /\ ~faulted
    /\ matchMedia /\ sysDark
    /\ before.attr = Absent
    /\ attr = "light"

\* C3: with 'dark' or 'light' stored, a system-preference change whose
\* storage read does not throw changes neither the root attribute nor the
\* stored value.
C3_SystemChangeSuppressed ==
    (last.op = "syschange" /\ ~last.f.read /\ before.store \in Themes)
        => (attr = before.attr /\ store = before.store)

C3_Witness ==
    /\ last.op = "syschange"
    /\ last.n = 1
    /\ ~last.f.read
    /\ before.store = "dark"
    /\ before.sysDark /\ ~sysDark
    /\ attr = "dark"
    /\ store = "dark"

\* C4: with no stored entry, a system-preference change delivered to the
\* page sets the root attribute to the new system value, and the label and
\* tooltip of the control (when it is in the document) to match it.
C4_SystemChangePropagates ==
    (last.op = "syschange" /\ last.n = 1 /\ before.store = Absent)
        => /\ attr = (IF sysDark THEN "dark" ELSE "light")
           /\ buttonInDom => /\ ariaLabel = LabelFor(attr)
                              /\ title = LabelFor(attr)

C4_Witness ==
    /\ last.op = "syschange"
    /\ last.n = 1
    /\ before.store = Absent
    /\ before.attr = "light"
    /\ buttonInDom
    /\ attr = "dark"
    /\ ariaLabel = LabelLight
    /\ title = LabelLight

\* C5: once the DOM is ready and the control exists, after every
\* operation the control's label and tooltip read 'Switch to light mode'
\* exactly when getCurrentTheme() is dark and 'Switch to dark mode' exactly
\* when it is light.
C5_LabelCorrect ==
    (page = "ready" /\ buttonInDom) =>
        /\ (ariaLabel = LabelLight) <=> (getCurrentTheme(World) = "dark")
        /\ (ariaLabel = LabelDark) <=> (getCurrentTheme(World) = "light")
        /\ (title = LabelLight) <=> (getCurrentTheme(World) = "dark")
        /\ (title = LabelDark) <=> (getCurrentTheme(World) = "light")

C5_Witness ==
    /\ page = "ready"
    /\ buttonInDom
    /\ last.op = "click"
    /\ last.n = 1
    /\ before.attr = "light"
    /\ attr = "dark"
    /\ ariaLabel = LabelLight
    /\ title = LabelLight

\* The system preference as the script reads it in state w.
SystemTheme(w) == IF w.mm /\ w.sysDark THEN "dark" ELSE "light"

Opposite(theme) == IF theme = "dark" THEN "light" ELSE "dark"

\* Two results of getStoredPreference() that no test the script applies to
\* the result (=== 'dark', === 'light', !stored) can tell apart.
Indistinguishable(a, b) ==
    /\ (a = "dark") <=> (b = "dark")
    /\ (a = "light") <=> (b = "light")
    /\ Falsy(a) <=> Falsy(b)

\* C6: while the page is open and no storage call has thrown, for a stored
\* value outside {dark, light} the result of getStoredPreference() is
\* indistinguishable from its result for no entry, and getCurrentTheme()
\* is the current system preference.
C6_InvalidStoredIsAbsent ==
    (page # "closed" /\ ~faulted /\ store \notin Themes) =>
        /\ Indistinguishable(getStoredPreference(World, NoFault), Absent)
        /\ getCurrentTheme(World) = SystemTheme(World)

\* C10: on a page where the control is not in the document no exception is
\* reported, no click listener is registered and no label is written; and
\* the root attribute after a page load, after DOMContentLoaded and after a
\* delivered system-preference change is the value that depends on the
\* storage and the system preference only, with or without the control.
C10_NoControlSafe ==
    /\ (page # "closed" /\ ~buttonInDom) =>
           /\ ~exc
           /\ clickHandlers = 0
           /\ ariaLabel = Unwritten
           /\ title = Unwritten
    /\ last.op = "load" =>
           attr = (IF ~last.f.read /\ before.store \in Themes
                   THEN before.store ELSE SystemTheme(World))
    /\ last.op = "domready" => attr = before.attr
    /\ (last.op = "syschange" /\ last.n = 1) =>
           attr = (IF last.f.read \/ before.store \in {Absent, ""}
                   THEN SystemTheme(World) ELSE before.attr)

C10_Witness ==
    /\ page = "ready"
    /\ ~hasButton
    /\ last.op = "syschange"
    /\ last.n = 1
    /\ before.store = Absent
    /\ before.attr = "light"
    /\ attr = "dark"
    /\ ~exc
    /\ clickHandlers = 0
    /\ ariaLabel = Unwritten

\* C11: while the page is open and no storage call has thrown, the root
\* attribute equals the stored preference when that is 'dark' or 'light'
\* and the current system preference otherwise.
C11_AttributeDerived ==
    (page # "closed" /\ ~faulted) =>
        attr = (IF store \in Themes THEN store ELSE SystemTheme(World))

\* C12: when no storage call has thrown, the theme a toggle click applies
\* is the opposite of what getCurrentTheme() returned right before it.
C12_ToggleFlipsDisplayed ==
    (ToggleStep /\ ~faulted) =>
        attr = Opposite(getCurrentTheme(before))

\* C13: a toggle click in which no storage call throws leaves 'dark' or
\* 'light' stored, and no step of any kind (click, system change, load,
\* close, faulty or not) takes a stored 'dark' or 'light' away.
C13_ExplicitForever ==
    /\ [](ToggleStep => store \in Themes)
    /\ [][(store \in Themes) => (store' \in Themes)]_vars

C13_Witness ==
    /\ ToggleStep
    /\ prev.op = "click"
    /\ prev.n = 1
    /\ before.store = "light"
    /\ store = "dark"

\* C14: while the stored entry is outside {dark, light}, a delivered
\* system-preference change whose read does not throw sets the root
\* attribute to the new system preference and the control's label and
\* tooltip to match, as it does for no entry.
C14_InvalidStoredPropagates ==
    (/\ last.op = "syschange"
     /\ last.n = 1
     /\ ~last.f.read
     /\ before.store \notin Themes)
        => /\ attr = (IF sysDark THEN "dark" ELSE "light")
           /\ buttonInDom => /\ ariaLabel = LabelFor(attr)
                              /\ title = LabelFor(attr)

\* C15: a page load with no 'dark' or 'light' stored sets the root
\* attribute to the system preference and leaves the stored entry as it
\* was; and no operation other than a click changes the stored entry.
C15_OnlyToggleWrites ==
    /\ (last.op = "load" /\ before.store \notin Themes)
           => (attr = SystemTheme(World) /\ store = before.store)
    /\ last.op # "click" => store = before.store

C15_Witness ==
    /\ last.op = "load"
    /\ before.store = Absent
    /\ store = Absent
    /\ before.attr = Absent
    /\ attr = "dark"

\* C16: the DOM-ready body runs exactly once per page, at DOMContentLoaded
\* when the script ran while the document was loading and at once
\* otherwise: before DOMContentLoaded it has not run and no click listener
\* exists; afterwards it has run once, the control has exactly one click
\* listener, and a click runs the handler exactly once.
C16_ReadyOnce ==
    /\ page = "loading" =>
           (readyRuns = 0 /\ clickHandlers = 0 /\ dclListener)
    /\ page = "ready" =>
           /\ readyRuns = 1
           /\ clickHandlers = (IF buttonInDom THEN 1 ELSE 0)
    /\ (last.op = "click" /\ page = "ready") => last.n = 1
    /\ last.op = "domready" => (last.n = 1 /\ before.ready = 0)
    /\ (last.op = "load" /\ last.arg = "ready") => ~dclListener

C16_Witness ==
    /\ last.op = "click"
    /\ last.n = 1
    /\ prev.op = "domready"
    /\ prev.n = 1
    /\ readyRuns = 1
    /\ clickHandlers = 1
    /\ ariaLabel = LabelFor(attr)

\* C17: while the page is open the root attribute is 'dark' or 'light',
\* and getCurrentTheme() returns it, whatever the system preference is.
C17_AttributeAlwaysValid ==
    page # "closed" =>
        (attr \in Themes /\ getCurrentTheme(World) = attr)

C17_Witness ==
    /\ page = "ready"
    /\ last.op = "syschange"
    /\ last.n = 1
    /\ store = "blue"
    /\ attr = "light"
    /\ SystemTheme(World) = "dark"
    /\ getCurrentTheme(World) = "light"

\* C18: after two consecutive toggle clicks, with no storage call having
\* thrown, the root attribute and the stored entry both equal the root
\* attribute from before the first of the two clicks.
C18_DoubleToggleRestores ==
    (/\ ToggleStep
     /\ ~faulted
     /\ prev.op = "click"
     /\ prev.n = 1)
        => (attr = prev.arg /\ store = prev.arg)

----------------------------------------------------------------------------
(* Properties of the functions (SpecApi) *)

\* C7: when neither call throws, getStoredPreference() right after
\* setTheme(x) returns x for x in {dark, light}, and returns no entry
\* right after setTheme(null).
C7_RoundTrip ==
    (/\ last.op = "getStoredPreference"
     /\ prev.op = "setTheme"
     /\ last.f = NoFault
     /\ prev.f = NoFault)
        => /\ prev.arg \in Themes => last.ret = prev.arg
           /\ prev.arg = Absent => last.ret = Absent

C7_Witness ==
    /\ last.op = "getStoredPreference"
    /\ prev.op = "setTheme"
    /\ last.f = NoFault
    /\ prev.f = NoFault
    /\ prev.arg = "dark"
    /\ last.ret = "dark"

\* C8: a second setTheme(x) right after a setTheme(x) in which the same
\* storage calls throw leaves the root attribute and the stored value as
\* the first call left them.
C8_SetThemeIdempotent ==
    (/\ last.op = "setTheme"
     /\ prev.op = "setTheme"
     /\ last.arg = prev.arg
     /\ last.f = prev.f)
        => (attr = before.attr /\ store = before.store)

C8_Witness ==
    /\ last.op = "setTheme"
    /\ prev.op = "setTheme"
    /\ last.arg = "dark"
    /\ prev.arg = "dark"
    /\ last.f = NoFault
    /\ prev.f = NoFault
    /\ attr = "dark"
    /\ store = "dark"

\* C9: no function lets a storage exception escape; a read that throws is
\* treated as no entry by getStoredPreference, initTheme, toggleTheme and
\* the change listener; a setTheme whose write or remove throws still
\* changes the root attribute and leaves the stored entry as it was.
C9_StorageFaultsAbsorbed ==
    /\ ~exc
    /\ (last.op = "getStoredPreference" /\ last.f.read)
           => last.ret = Absent
    /\ (last.op = "initTheme" /\ last.f.read)
           => (attr = SystemTheme(before) /\ store = before.store)
    /\ (last.op = "toggleTheme" /\ last.f.read)
           => /\ attr = Opposite(SystemTheme(before))
              /\ store = (IF last.f.write THEN before.store ELSE attr)
    /\ (last.op = "mediaChangeListener" /\ last.f.read)
           => (attr = SystemTheme(before) /\ store = before.store)
    /\ (last.op = "setTheme" /\ last.arg \in Themes /\ last.f.write)
           => (attr = last.arg /\ store = before.store)
    /\ (last.op = "setTheme" /\ last.arg = Absent /\ last.f.remove)
           => (attr = Absent /\ store = before.store)
    /\ (last.op \in {"initTheme", "toggleTheme"} /\ last.f.write)
           => (attr \in Themes /\ store = before.store)

C9_Witness ==
    /\ last.op = "setTheme"
    /\ last.arg = "dark"
    /\ last.f.write
    /\ before.attr = "light"
    /\ before.store = "light"
    /\ attr = "dark"
    /\ store = "light"
    /\ ~exc

====
